---- MODULE Spec2Model ----
(***************************************************************************)
(* The front end of the quark compiler: Lexer::tokenize (src/src/lexer.rs) *)
(* followed by Parser::parse (src/src/parser.rs), driven in that order by  *)
(* compile_file (src/src/cli.rs).                                          *)
(*                                                                         *)
(* A char is its Unicode code point; a String or Vec<char> is a sequence   *)
(* of code points.  Positions are 0-based as in the source, so element i   *)
(* of a Vec v is v[i + 1].                                                 *)
(***************************************************************************)
EXTENDS Integers, Sequences, FiniteSets, TLC

VARIABLES
    lexer,        \* struct Lexer {input, position, line, column}
    tokens,       \* the local Vec `tokens` of Lexer::tokenize
    lexResult,    \* what Lexer::tokenize returned (NotYet while it runs)
    parser,       \* struct Parser {tokens, position, current_line, current_column}
    statements,   \* the local Vec `statements` of Parser::parse
    parseResult,  \* what Parser::parse returned (NotYet while it runs)
    pc            \* where compile_file is: "tokenize", "new_parser", "parse", "done"

vars == <<lexer, tokens, lexResult, parser, statements, parseResult, pc>>

----------------------------------------------------------------------------
(* Characters the source tests literally *)

NEWLINE   == 10
TAB       == 9
CR        == 13
QUOTE     == 34
LPAREN    == 40
RPAREN    == 41
SLASH     == 47
DOT       == 46
SEMICOLON == 59
EQUALS    == 61
BACKSLASH == 92
UNDERSCORE == 95
LOWER_N   == 110
LOWER_R   == 114
LOWER_T   == 116

(* Option<char>::None *)
NoChar == -1

(* char::is_ascii *)
is_ascii(ch) == ch >= 0 /\ ch <= 127

(* char::is_ascii_digit *)
is_ascii_digit(ch) == ch >= 48 /\ ch <= 57

(* char::is_whitespace: the Unicode White_Space property *)
is_whitespace(ch) ==
    \/ ch >= 9 /\ ch <= 13
    \/ ch = 32
    \/ ch = 133
    \/ ch = 160
    \/ ch = 5760
    \/ ch >= 8192 /\ ch <= 8202
    \/ ch \in {8232, 8233, 8239, 8287, 12288}

(* The non-ASCII code points the model draws, with their Unicode classes:  *)
(* 233 (e acute) and 1078 (Cyrillic zhe) are Alphabetic, 178 (superscript  *)
(* two) is Numeric but not Alphabetic, 160 (no-break space) is White_Space,*)
(* 8364 (euro sign) is none of these.                                      *)
NonAsciiAlphabetic == {233, 1078}
NonAsciiNumeric == {178}

(* char::is_alphabetic *)
is_alphabetic(ch) ==
    \/ ch >= 65 /\ ch <= 90
    \/ ch >= 97 /\ ch <= 122
    \/ ch \in NonAsciiAlphabetic

(* char::is_alphanumeric *)
is_alphanumeric(ch) ==
    \/ is_alphabetic(ch)
    \/ is_ascii_digit(ch)
    \/ ch \in NonAsciiNumeric

----------------------------------------------------------------------------
(* enum Token.  A token is a record [type, text]: text is the String of    *)
(* Ident, StringLiteral and NumberLiteral, the one char of Illegal, and    *)
(* empty for the other variants.                                           *)

Tok(type, text) == [type |-> type, text |-> text]
EOF == Tok("EOF", <<>>)

(* Result<_, LexError> *)
LexOk(l, v) == [ok |-> TRUE, l |-> l, value |-> v]
LexError(l, message, position) ==
    [ok |-> FALSE, l |-> l, message |-> message, position |-> position]

(* the ? operator: K on an Ok result, the Err result itself otherwise *)
Try(r, K(_)) == IF r.ok THEN K(r) ELSE r

(* Lexer::new *)
NewLexer(input) == [input |-> input, position |-> 0, line |-> 1, column |-> 1]

(* Vec::get(i).copied() on the input *)
InputGet(l, i) == IF i < Len(l.input) THEN l.input[i + 1] ELSE NoChar

(* Lexer::peek *)
LexPeek(l) == InputGet(l, l.position)

(* Lexer::advance *)
LexAdvance(l) ==
    LET c == LexPeek(l) IN
    IF c = NoChar THEN l
    ELSE IF c = NEWLINE
         THEN [l EXCEPT !.line = @ + 1, !.column = 1, !.position = @ + 1]
         ELSE [l EXCEPT !.column = @ + 1, !.position = @ + 1]

(* Lexer::skip_whitespace *)
RECURSIVE skip_whitespace(_)
skip_whitespace(l) ==
    LET ch == LexPeek(l) IN
    IF ch # NoChar /\ is_whitespace(ch)
    THEN skip_whitespace(LexAdvance(l))
    ELSE l

(* the inner loop of skip_comments: up to, not including, the newline *)
RECURSIVE skip_line(_)
skip_line(l) ==
    LET ch == LexPeek(l) IN
    IF ch # NoChar /\ ch # NEWLINE
    THEN skip_line(LexAdvance(l))
    ELSE l

(* skip_comment without the whitespace skipped after the comment *)
skip_comment_only(l) == skip_line(LexAdvance(LexAdvance(l)))

(* one comment of skip_comments: the two slashes, the rest of the line,    *)
(* then the whitespace after it                                            *)
skip_comment(l) == skip_whitespace(skip_line(LexAdvance(LexAdvance(l))))

(* Lexer::skip_comments *)
RECURSIVE skip_comments(_)
skip_comments(l) ==
    IF LexPeek(l) = SLASH /\ InputGet(l, l.position + 1) = SLASH
    THEN skip_comments(skip_comment(l))
    ELSE l

(* Lexer::read_ident: the record [l, value] of the lexer after and the String *)
RECURSIVE read_ident_loop(_, _)
read_ident_loop(l, ident) ==
    LET ch == LexPeek(l) IN
    IF ch # NoChar /\ (is_alphanumeric(ch) \/ ch = UNDERSCORE)
    THEN read_ident_loop(LexAdvance(l), Append(ident, ch))
    ELSE [l |-> l, value |-> ident]

read_ident(l) == read_ident_loop(l, <<>>)

(* accepts_dot without the lookahead *)
accepts_dot_no_lookahead(l, has_dot) == ~has_dot

(* read_number on a '.': consumed only when none was and a digit follows *)
accepts_dot(l, has_dot) ==
    /\ ~has_dot
    /\ InputGet(l, l.position + 1) # NoChar
    /\ is_ascii_digit(InputGet(l, l.position + 1))

(* the while loop of Lexer::read_number *)
RECURSIVE read_number_loop(_, _, _)
read_number_loop(l, number, has_dot) ==
    LET ch == LexPeek(l) IN
    IF ch = NoChar THEN [l |-> l, value |-> number]
    ELSE IF is_ascii_digit(ch)
         THEN read_number_loop(LexAdvance(l), Append(number, ch), has_dot)
    ELSE IF ch = DOT /\ accepts_dot(l, has_dot)
         THEN read_number_loop(LexAdvance(l), Append(number, ch), TRUE)
    ELSE [l |-> l, value |-> number]

(* Lexer::read_number *)

read_number(l) == read_number_loop(l, <<>>, FALSE)

(* the escape table of read_string: the char an escaped char stands for,   *)
(* NoChar for an unknown escape                                            *)
Unescape(escaped) ==
    CASE escaped = LOWER_N   -> NEWLINE
      [] escaped = LOWER_T   -> TAB
      [] escaped = LOWER_R   -> CR
      [] escaped = QUOTE     -> QUOTE
      [] escaped = BACKSLASH -> BACKSLASH
      [] OTHER               -> NoChar

(* end_of_input returning the string read so far *)
end_of_input_ok(l, string) == LexOk(l, string)

(* the Err after the while loop of read_string: the input has ended *)
end_of_input(l, string) == LexError(l, "Unterminated string constant", l.position)

(* the while loop of Lexer::read_string *)
RECURSIVE read_string_loop(_, _)
read_string_loop(l, string) ==
    LET ch == LexPeek(l) IN
    IF ch = NoChar
    THEN end_of_input(l, string)
    ELSE IF ch = QUOTE
    THEN LexOk(LexAdvance(l), string)
    ELSE IF ch = BACKSLASH
    THEN LET l1 == LexAdvance(l)
             escaped == LexPeek(l1)
         IN  IF escaped = NoChar
             THEN LexError(l1, "Incomplete escape sequence", l1.position)
             ELSE IF Unescape(escaped) = NoChar
             THEN LexError(l1, "Unknown escape sequence", l1.position)
             ELSE read_string_loop(LexAdvance(l1), Append(string, Unescape(escaped)))
    ELSE IF ch = NEWLINE
    THEN LexError(l, "Unclosed string", l.position)
    ELSE read_string_loop(LexAdvance(l), Append(string, ch))

(* read_string skipping whitespace after the opening quote *)
read_string_trimmed(l) == read_string_loop(skip_whitespace(LexAdvance(l)), <<>>)

(* Lexer::read_string *)
read_string(l) == read_string_loop(LexAdvance(l), <<>>)

(* the keyword table of next_token *)
KwString  == <<83, 116, 114, 105, 110, 103>>
KwInteger == <<73, 110, 116, 101, 103, 101, 114>>
KwFloat   == <<70, 108, 111, 97, 116>>
KwBoolean == <<66, 111, 111, 108, 101, 97, 110>>
KwTrue    == <<116, 114, 117, 101>>
KwFalse   == <<102, 97, 108, 115, 101>>

Keyword(ident) ==
    CASE ident = KwString  -> Tok("StringType", <<>>)
      [] ident = KwInteger -> Tok("IntegerType", <<>>)
      [] ident = KwFloat   -> Tok("FloatType", <<>>)
      [] ident = KwBoolean -> Tok("BooleanType", <<>>)
      [] ident = KwTrue    -> Tok("True", <<>>)
      [] ident = KwFalse   -> Tok("False", <<>>)
      [] OTHER             -> Tok("Ident", ident)

(* the position at which next_token matches: after whitespace and comments *)
SkipBlank(l) == skip_comments(skip_whitespace(l))

(* other_char leaving the char where it is *)
other_char_stuck(l) ==
    IF is_ascii(LexPeek(l))
    THEN LexOk(l, Tok("Illegal", <<LexPeek(l)>>))
    ELSE LexError(l, "Invalid character", l.position)

(* other_char without the is_ascii guard *)
other_char_any(l) == LexOk(LexAdvance(l), Tok("Illegal", <<LexPeek(l)>>))

(* the last two arms of the match of next_token on a char: Illegal for an *)
(* ASCII char, the error for any other                                     *)
other_char(l) ==
    IF is_ascii(LexPeek(l))
    THEN LexOk(LexAdvance(l), Tok("Illegal", <<LexPeek(l)>>))
    ELSE LexError(LexAdvance(l), "Invalid character", l.position)

(* the match of Lexer::next_token on self.peek() *)
match_token(l) ==
    CASE LexPeek(l) = LPAREN    -> LexOk(LexAdvance(l), Tok("LParen", <<>>))
      [] LexPeek(l) = RPAREN    -> LexOk(LexAdvance(l), Tok("RParen", <<>>))
      [] LexPeek(l) = SEMICOLON -> LexOk(LexAdvance(l), Tok("Semicolon", <<>>))
      [] LexPeek(l) = EQUALS    -> LexOk(LexAdvance(l), Tok("Equals", <<>>))
      [] LexPeek(l) = QUOTE     ->
            Try(read_string(l), LAMBDA r : LexOk(r.l, Tok("StringLiteral", r.value)))
      [] LexPeek(l) = NoChar    -> LexOk(l, EOF)
      [] OTHER ->
            IF is_ascii_digit(LexPeek(l))
            THEN LexOk(read_number(l).l, Tok("NumberLiteral", read_number(l).value))
            ELSE IF is_alphabetic(LexPeek(l)) \/ LexPeek(l) = UNDERSCORE
            THEN LexOk(read_ident(l).l, Keyword(read_ident(l).value))
            ELSE other_char(l)

(* Lexer::next_token *)
next_token(l) == match_token(SkipBlank(l))

----------------------------------------------------------------------------
(* src/src/parser.rs *)

(* Option<&Token>::None *)
NoToken == Tok("None", <<>>)

(* Result<_, ParseError>; p is the parser after the call *)
POk(p, v) == [ok |-> TRUE, p |-> p, value |-> v]
ParseError(p, message) ==
    [ok |-> FALSE, p |-> p, message |-> message,
     line |-> p.current_line, column |-> p.current_column]

(* Parser::new *)
NewParser(toks) ==
    [tokens |-> toks, position |-> 0, current_line |-> 1, current_column |-> 1]

(* the Parser value before compile_file has constructed it *)
NoParser ==
    [tokens |-> <<>>, position |-> 0, current_line |-> 0, current_column |-> 0]

(* Parser::peek *)
Peek(p) == IF p.position < Len(p.tokens) THEN p.tokens[p.position + 1] ELSE NoToken

(* Advance counting the column of the token it passes *)
AdvanceCounting(p) == [p EXCEPT !.position = @ + 1, !.current_column = @ + 1]

(* Parser::advance: the parser after it; the token it returns is Peek(p) *)
Advance(p) == [p EXCEPT !.position = @ + 1]

(* Parser::expect; expected is the variant, compared by discriminant *)
expect(p, expected) ==
    LET token == Peek(p)
        p1    == Advance(p)
    IN  IF token # NoToken /\ token.type = expected THEN POk(p1, <<>>)
        ELSE IF token # NoToken THEN ParseError(p1, "Expected token, got")
        ELSE ParseError(p1, "Expected token, but no more tokens")

(* Parser::parse_type *)
parse_type(p) ==
    LET token == Peek(p)
        p1    == Advance(p)
    IN  CASE token.type = "StringType"  -> POk(p1, "String")
          [] token.type = "IntegerType" -> POk(p1, "Integer")
          [] token.type = "FloatType"   -> POk(p1, "Float")
          [] token.type = "BooleanType" -> POk(p1, "Boolean")
          [] token.type = "None"        -> ParseError(p1, "Expected type")
          [] OTHER                      -> ParseError(p1, "Expected type, got")

(* enum Value: [tag, v].  An Integer's v is its decimal digits without     *)
(* leading zeros (an i64 does not fit the integers of TLC); a Float's v is *)
(* its decimal text without leading zeros of the integer part and without  *)
(* trailing zeros of the fraction; a Boolean's v is <<1>> or <<0>>.        *)
Value(tag, v) == [tag |-> tag, v |-> v]

RECURSIVE StripLeadingZeros(_)
StripLeadingZeros(digits) ==
    IF Len(digits) > 1 /\ Head(digits) = 48
    THEN StripLeadingZeros(Tail(digits))
    ELSE digits

RECURSIVE StripTrailingZeros(_)
StripTrailingZeros(digits) ==
    IF Len(digits) > 1 /\ digits[Len(digits)] = 48
    THEN StripTrailingZeros(SubSeq(digits, 1, Len(digits) - 1))
    ELSE digits

(* i64::MAX = 9223372036854775807, as decimal digits *)
I64MaxDigits ==
    <<57, 50, 50, 51, 51, 55, 50, 48, 51, 54, 56, 53, 52, 55, 55, 53, 56, 48, 55>>

(* a <= b for digit strings of the same length *)
RECURSIVE DigitsLeq(_, _)
DigitsLeq(a, b) ==
    IF a = <<>> THEN TRUE
    ELSE IF Head(a) # Head(b) THEN Head(a) < Head(b)
    ELSE DigitsLeq(Tail(a), Tail(b))

(* str::parse::<i64> on a string of ASCII digits: the value, or <<>> on overflow *)
parse_i64(num) ==
    LET d == StripLeadingZeros(num) IN
    IF Len(d) < Len(I64MaxDigits) \/ (Len(d) = Len(I64MaxDigits) /\ DigitsLeq(d, I64MaxDigits))
    THEN d
    ELSE <<>>

(* the index of the first DOT of a string, 0 if none *)
RECURSIVE DotIndexFrom(_, _)
DotIndexFrom(num, i) ==
    IF i > Len(num) THEN 0
    ELSE IF num[i] = DOT THEN i
    ELSE DotIndexFrom(num, i + 1)

(* String::contains('.') *)
contains_dot(num) == DotIndexFrom(num, 1) # 0

(* str::parse::<f64> on digits '.' digits, which never fails *)
parse_f64(num) ==
    LET k == DotIndexFrom(num, 1) IN
    StripLeadingZeros(SubSeq(num, 1, k - 1)) \o <<DOT>>
        \o StripTrailingZeros(SubSeq(num, k + 1, Len(num)))

(* Parser::parse_value *)
parse_value(p) ==
    LET token == Peek(p)
        p1    == Advance(p)
    IN  CASE token.type = "StringLiteral" -> POk(p1, Value("String", token.text))
          [] token.type = "NumberLiteral" ->
                IF contains_dot(token.text)
                THEN POk(p1, Value("Float", parse_f64(token.text)))
                ELSE IF parse_i64(token.text) # <<>>
                     THEN POk(p1, Value("Integer", parse_i64(token.text)))
                     ELSE ParseError(p1, "Invalid integer literal")
          [] token.type = "True"  -> POk(p1, Value("Boolean", <<1>>))
          [] token.type = "False" -> POk(p1, Value("Boolean", <<0>>))
          [] token.type = "None"  -> ParseError(p1, "Expected value")
          [] OTHER                -> ParseError(p1, "Expected value, got")

(* enum Expr *)
Literal(value) == [kind |-> "Literal", value |-> value]
Variable(name) == [kind |-> "Variable", name |-> name]
BinaryOp(left, right) == [kind |-> "BinaryOp", left |-> left, op |-> "Add", right |-> right]
Call(name, args) == [kind |-> "Call", name |-> name, args |-> args]

RECURSIVE parse_primary_expression(_)
RECURSIVE parse_expression(_)
RECURSIVE parse_expression_loop(_, _)

(* Parser::parse_primary_expression *)
parse_primary_expression(p) ==
    CASE Peek(p).type \in {"StringLiteral", "NumberLiteral", "True", "False"} ->
            Try(parse_value(p), LAMBDA r : POk(r.p, Literal(r.value)))
      [] Peek(p).type = "Ident" ->
            POk(Advance(p), Variable(Peek(p).text))
      [] Peek(p).type = "LParen" ->
            Try(parse_expression(Advance(p)), LAMBDA r :
            Try(expect(r.p, "RParen"), LAMBDA e : POk(e.p, r.value)))
      [] OTHER ->
            ParseError(p, "Expected expression")

(* the while loop of Parser::parse_expression.  It matches Token::Plus,    *)
(* a variant enum Token of lexer.rs does not declare: no token of the      *)
(* lexer has this type.                                                    *)
parse_expression_loop(p, left) ==
    IF Peek(p).type = "Plus"
    THEN Try(parse_primary_expression(Advance(p)), LAMBDA r :
             parse_expression_loop(r.p, BinaryOp(left, r.value)))
    ELSE POk(p, left)

(* Parser::parse_expression *)
parse_expression(p) ==
    Try(parse_primary_expression(p), LAMBDA r : parse_expression_loop(r.p, r.value))

(* enum Stmt *)
Declaration(var_type, name, value) ==
    [kind |-> "Declaration", var_type |-> var_type, name |-> name, value |-> value]
Expression(expr) == [kind |-> "Expression", expr |-> expr]

(* TypeMatches with an Integer value widened to a Float variable *)
TypeMatchesWidening(var_type, value) ==
    var_type = value.tag \/ (var_type = "Float" /\ value.tag = "Integer")

(* the match (&var_type, &value) of parse_declaration *)
TypeMatches(var_type, value) == var_type = value.tag

(* the variable name of parse_declaration: self.advance() matched on Ident *)
parse_name(p) ==
    CASE Peek(p).type = "Ident" -> POk(Advance(p), Peek(p).text)
      [] Peek(p).type = "None"  -> ParseError(Advance(p), "Expected variable name")
      [] OTHER                  -> ParseError(Advance(p), "Expected variable name, got")

(* Parser::parse_declaration *)
parse_declaration(p) ==
    Try(parse_type(p), LAMBDA t :
    Try(parse_name(t.p), LAMBDA n :
    Try(expect(n.p, "Equals"), LAMBDA e :
    Try(parse_value(e.p), LAMBDA v :
        IF ~TypeMatches(t.value, v.value)
        THEN ParseError(v.p, "Type mismatch")
        ELSE Try(expect(v.p, "Semicolon"), LAMBDA s :
                 POk(s.p, Declaration(t.value, n.value, v.value)))))))

(* parse_args taking expressions until the closing parenthesis *)
RECURSIVE parse_args_loop(_, _)
parse_args_loop(p, args) ==
    IF Peek(p).type = "RParen"
    THEN POk(p, args)
    ELSE Try(parse_expression(p), LAMBDA x : parse_args_loop(x.p, Append(args, x.value)))

parse_args_many(p) == parse_args_loop(p, <<>>)

(* the argument list of parse_call *)
parse_args(p) ==
    IF Peek(p).type = "RParen"
    THEN POk(p, <<>>)
    ELSE Try(parse_expression(p), LAMBDA x : POk(x.p, <<x.value>>))

(* Parser::parse_call *)
parse_call(p, name) ==
    Try(expect(p, "LParen"), LAMBDA lp :
    Try(parse_args(lp.p), LAMBDA a :
    Try(expect(a.p, "RParen"), LAMBDA rp :
    Try(expect(rp.p, "Semicolon"), LAMBDA s :
        POk(s.p, Call(name, a.value))))))

(* the builtin name "echo" *)
Echo == <<101, 99, 104, 111>>

TypeKeywords == {"StringType", "IntegerType", "FloatType", "BooleanType"}

(* struct Program *)
Program(stmts) == [statements |-> stmts]

(* the Result values tokenize and parse return; NotYet before they return *)
NotYet == [kind |-> "NotYet"]
Ok(v) == [kind |-> "Ok", value |-> v]
ErrLex(r) == [kind |-> "Err", message |-> r.message, position |-> r.position]
ErrParse(r) ==
    [kind |-> "Err", message |-> r.message, line |-> r.line, column |-> r.column]

(* PushOrReturn returning the statements accumulated so far as a Program   *)
(* when a statement fails                                                  *)
PushOrReturnPartial(stmts, r) ==
    IF r.ok
    THEN [ret |-> FALSE, p |-> r.p, statements |-> Append(stmts, r.value),
          result |-> NotYet]
    ELSE [ret |-> TRUE, p |-> r.p, statements |-> stmts,
          result |-> Ok(Program(stmts))]

(* what one iteration of the while loop of Parser::parse does with the    *)
(* Result r of a statement: push it on the local Vec stmts, or return Err  *)
PushOrReturn(stmts, r) ==
    IF r.ok
    THEN [ret |-> FALSE, p |-> r.p, statements |-> Append(stmts, r.value),
          result |-> NotYet]
    ELSE [ret |-> TRUE, p |-> r.p, statements |-> stmts, result |-> ErrParse(r)]

(* illegal_statement skipping the token instead of returning the error *)
illegal_statement_skipped(p, stmts) ==
    [ret |-> FALSE, p |-> Advance(p), statements |-> stmts, result |-> NotYet]

(* the arm Token::Illegal of the match of Parser::parse *)
illegal_statement(p, stmts) ==
    PushOrReturn(stmts, ParseError(p, "Invalid character"))

(* one iteration of the while loop of Parser::parse, on the local Vec      *)
(* stmts: [ret, p, statements, result]; ret = TRUE when parse returns,     *)
(* and result is then what it returns                                      *)
ParseIteration(p, stmts) ==
    CASE Peek(p).type \in {"None", "EOF"} ->
            [ret |-> TRUE, p |-> p, statements |-> stmts,
             result |-> Ok(Program(stmts))]
      [] Peek(p).type \in TypeKeywords ->
            PushOrReturn(stmts, parse_declaration(p))
      [] Peek(p).type = "Ident" ->
            IF Peek(p).text = Echo
            THEN PushOrReturn(stmts,
                     Try(parse_call(Advance(p), Peek(p).text),
                         LAMBDA r : POk(r.p, Expression(r.value))))
            ELSE PushOrReturn(stmts,
                     ParseError(Advance(p), "Unknown function or variable"))
      [] Peek(p).type = "Illegal" ->
            illegal_statement(p, stmts)
      [] OTHER ->
            PushOrReturn(stmts, ParseError(Advance(p), "Unexpected token"))

----------------------------------------------------------------------------
(* The source texts the model runs the front end on *)

MaxLen == 4
MaxPrefix == 2
MaxChain == 3

(* characters of the character-level source texts: space, newline, '"',    *)
(* '.', '/', '1', '\', 'n', no-break space, superscript two, e acute       *)
LexAlphabet == {32, NEWLINE, QUOTE, DOT, SLASH, 49, BACKSLASH, LOWER_N, 160, 178, 233}

CharSources == UNION {[1..n -> LexAlphabet] : n \in 0..MaxLen}

(* lexemes of the statement-level source texts *)
LexX      == <<120>>
LexY      == <<121>>
LexEq     == <<EQUALS>>
LexSemi   == <<SEMICOLON>>
LexLParen == <<LPAREN>>
LexRParen == <<RPAREN>>
LexPlus   == <<43>>
LexHash   == <<35>>
Lex42     == <<52, 50>>
Lex1p5    == <<48, 49, 46, 53, 48>>
LexHi     == <<QUOTE, 104, 105, BACKSLASH, LOWER_N, QUOTE>>
LexBig    == <<57, 50, 50, 51, 51, 55, 50, 48, 51, 54, 56, 53, 52, 55, 55, 53, 56, 48, 56>>

TypeLexemes == {KwString, KwInteger, KwFloat, KwBoolean}
ValueLexemes == {Lex42, Lex1p5, LexHi, KwTrue, LexBig}

(* Type x = value ; *)
DeclForms == {<<t, LexX, LexEq, v, LexSemi>> : t \in TypeLexemes, v \in ValueLexemes}

(* 1 + 2 + ... + n *)
RECURSIVE Chain(_)
Chain(n) == IF n = 1 THEN <<(<<49>>)>> ELSE Chain(n - 1) \o <<LexPlus, <<48 + n>>>>

ArgForms ==
    {<<>>, <<LexX>>, <<LexHi>>, <<Lex1p5>>, <<LexBig>>, <<LexLParen, LexX, LexRParen>>}
        \cup {Chain(n) : n \in 2..MaxChain}

(* echo ( args ) ; *)
CallForms == {<<Echo, LexLParen>> \o a \o <<LexRParen, LexSemi>> : a \in ArgForms}

(* a statement with one lexeme replaced or left out *)
MutLexemes == {LexHash, LexY, LexRParen}
Faulty(f) ==
    {[f EXCEPT ![i] = m] : i \in 1..Len(f), m \in MutLexemes}
        \cup {SubSeq(f, 1, i - 1) \o SubSeq(f, i + 1, Len(f)) : i \in 1..Len(f)}

FocusForms ==
    {<<>>} \cup DeclForms \cup CallForms
        \cup UNION {Faulty(f) : f \in DeclForms \cup CallForms}

GoodStmts == {<<KwInteger, LexX, LexEq, Lex42, LexSemi>>,
              <<Echo, LexLParen, LexX, LexRParen, LexSemi>>}

RECURSIVE Concat(_)
Concat(ss) == IF ss = <<>> THEN <<>> ELSE Head(ss) \o Concat(Tail(ss))

Prefixes == {Concat(ps) : ps \in UNION {[1..n -> GoodStmts] : n \in 0..MaxPrefix}}
Suffixes == {<<>>, <<Echo, LexLParen, LexRParen, LexSemi>>}

(* the text of a lexeme sequence: each lexeme followed by a space *)
RECURSIVE Text(_)
Text(ls) == IF ls = <<>> THEN <<>> ELSE Head(ls) \o <<32>> \o Text(Tail(ls))

StmtSources == {Text(p \o f \o s) : p \in Prefixes, f \in FocusForms, s \in Suffixes}

(* lexemes tokenize fails on: a non-ASCII symbol, a string never closed *)
LexEuro == <<8364>>
LexOpen == <<QUOTE, 104, 105>>
LexFaults == {LexEuro, LexOpen}

(* a focus statement, then an echo whose argument cannot be tokenized *)
UnlexableSources ==
    {Text(f \o <<Echo, LexLParen, m, LexRParen, LexSemi>>) :
        f \in FocusForms, m \in LexFaults}

FrontSources == StmtSources \cup UnlexableSources

(* the source texts of the runs to completion: statements around one that  *)
(* may be faulty, texts tokenize fails on, and every short text            *)
LoopForms ==
    {<<>>} \cup GoodStmts
        \cup Faulty(<<KwString, LexX, LexEq, LexHi, LexSemi>>)
        \cup Faulty(<<Echo, LexLParen>> \o Chain(MaxChain - 1) \o <<LexRParen, LexSemi>>)

LoopSources ==
    {Text(p \o f \o s) : p \in Prefixes, f \in LoopForms, s \in Suffixes}
        \cup {Text(<<Echo, LexLParen, m, LexRParen, LexSemi>>) : m \in LexFaults}
        \cup UNION {[1..n -> LexAlphabet] : n \in 0..(MaxLen - 1)}

----------------------------------------------------------------------------
(* compile_file: tokenize, then Parser::new, then parse *)

InitWith(sources) ==
    /\ \E src \in sources : lexer = NewLexer(src)
    /\ tokens = <<>>
    /\ lexResult = NotYet
    /\ parser = NoParser
    /\ statements = <<>>
    /\ parseResult = NotYet
    /\ pc = "tokenize"

Init == InitWith(StmtSources)
InitLex == InitWith(CharSources)
InitFront == InitWith(FrontSources)
InitLoops == InitWith(LoopSources)

(* push_token placed after the break on EOF *)
push_token_unless_eof(toks, token) == IF token = EOF THEN toks ELSE Append(toks, token)

(* tokens.push(token) in Lexer::tokenize *)
push_token(toks, token) == Append(toks, token)

(* one iteration of the loop of Lexer::tokenize, and its return *)
TokenizeStep ==
    /\ pc = "tokenize"
    /\ LET r == next_token(lexer) IN
       /\ lexer' = r.l
       /\ IF ~r.ok
          THEN /\ lexResult' = ErrLex(r)
               /\ tokens' = tokens
               /\ pc' = "done"
          ELSE /\ tokens' = push_token(tokens, r.value)
               /\ IF r.value = EOF
                  THEN lexResult' = Ok(tokens') /\ pc' = "new_parser"
                  ELSE lexResult' = lexResult /\ pc' = pc
    /\ UNCHANGED <<parser, statements, parseResult>>

(* Parser::new(tokens) in compile_file *)
NewParserStep ==
    /\ pc = "new_parser"
    /\ parser' = NewParser(lexResult.value)
    /\ pc' = "parse"
    /\ UNCHANGED <<lexer, tokens, lexResult, statements, parseResult>>

(* one iteration of the loop of Parser::parse, and its return *)
ParseStep ==
    /\ pc = "parse"
    /\ LET it == ParseIteration(parser, statements) IN
       /\ parser' = it.p
       /\ statements' = it.statements
       /\ parseResult' = it.result
       /\ pc' = IF it.ret THEN "done" ELSE pc
    /\ UNCHANGED <<lexer, tokens, lexResult>>

Next == TokenizeStep \/ NewParserStep \/ ParseStep

Spec == Init /\ [][Next]_vars
SpecLex == InitLex /\ [][Next]_vars
SpecFront == InitFront /\ [][Next]_vars

(* compile_file runs on one thread, each call to completion: an iteration  *)
(* that can be taken is taken.  This is weak fairness of the three steps.  *)
(* For the two loops it is written with ENABLED <<TokenizeStep>>_vars as   *)
(* pc = "tokenize" and ENABLED <<ParseStep>>_vars as pc = "parse", which   *)
(* is what they are as long as an iteration always changes the state: the  *)
(* results of the lexer and of the parser are computed by recursion, which *)
(* TLC evaluates by name, in exponential time, inside ENABLED.             *)
Fairness ==
    /\ []<>(pc # "tokenize") \/ []<><<TokenizeStep>>_vars
    /\ WF_vars(NewParserStep)
    /\ []<>(pc # "parse") \/ []<><<ParseStep>>_vars

SpecFair == InitLoops /\ [][Next]_vars /\ Fairness

----------------------------------------------------------------------------
(* Vocabulary of the properties *)

(* the token k places after the parser's current one *)
TokAt(p, k) == Peek([p EXCEPT !.position = @ + k])

LiteralTokens == {"StringLiteral", "NumberLiteral", "True", "False"}

(* the kind of a literal token *)
LiteralKind(tok) ==
    CASE tok.type = "StringLiteral" -> "String"
      [] tok.type = "NumberLiteral" ->
            IF \E i \in 1..Len(tok.text) : tok.text[i] = DOT THEN "Float" ELSE "Integer"
      [] tok.type \in {"True", "False"} -> "Boolean"

(* the type a type keyword declares *)
DeclaredType(tok) ==
    CASE tok.type = "StringType"  -> "String"
      [] tok.type = "IntegerType" -> "Integer"
      [] tok.type = "FloatType"   -> "Float"
      [] tok.type = "BooleanType" -> "Boolean"

(* the parser is at `Type name = literal` with a literal of another kind *)
AtDeclOfOtherKind(p) ==
    /\ TokAt(p, 0).type \in TypeKeywords
    /\ TokAt(p, 1).type = "Ident"
    /\ TokAt(p, 2).type = "Equals"
    /\ TokAt(p, 3).type \in LiteralTokens
    /\ LiteralKind(TokAt(p, 3)) # DeclaredType(TokAt(p, 0))

(* an integer literal above i64::MAX *)
TooBigForI64(tok) ==
    /\ tok.type = "NumberLiteral"
    /\ LiteralKind(tok) = "Integer"
    /\ LET d == StripLeadingZeros(tok.text) IN
       \/ Len(d) > Len(I64MaxDigits)
       \/ Len(d) = Len(I64MaxDigits) /\ ~DigitsLeq(d, I64MaxDigits)

(* every Declaration of a statement list has a value of its declared type *)
TagsMatch(stmts) ==
    \A i \in 1..Len(stmts) :
        stmts[i].kind = "Declaration" => stmts[i].value.tag = stmts[i].var_type

Failed(result, message) == result.kind = "Err" /\ result.message = message

----------------------------------------------------------------------------
(* C1, as claimed: every Declaration of a Program has a value of its       *)
(* declared type, and a declaration whose literal is of another kind makes *)
(* parse return a 'Type mismatch' error.                                   *)
C1_Original ==
    [][pc = "parse" =>
        /\ TagsMatch(statements')
        /\ AtDeclOfOtherKind(parser) => Failed(parseResult', "Type mismatch")]_vars

(* C1, amended: every Declaration of the statements parse accumulates and  *)
(* returns has a value of its declared type; a declaration whose literal   *)
(* is of another kind makes parse return an error and no Program: 'Type    *)
(* mismatch', or 'Invalid integer literal' when the literal is an integer  *)
(* literal above i64::MAX.                                                 *)
C1_DeclarationTypeChecked ==
    [][pc = "parse" =>
        /\ TagsMatch(statements')
        /\ parseResult'.kind = "Ok" => parseResult'.value.statements = statements'
        /\ AtDeclOfOtherKind(parser) =>
              /\ pc' = "done"
              /\ statements' = statements
              /\ IF TooBigForI64(TokAt(parser, 3))
                 THEN Failed(parseResult', "Invalid integer literal")
                 ELSE Failed(parseResult', "Type mismatch")]_vars

(* C1 witness: parse has accumulated a declaration and then returned 'Type *)
(* mismatch' for an integer literal given to a Float variable.             *)
C1_Witness ==
    /\ pc = "done"
    /\ Failed(parseResult, "Type mismatch")
    /\ statements # <<>>
    /\ statements[1].kind = "Declaration"
    /\ parser.position >= 4
    /\ parser.tokens[parser.position - 3].type = "FloatType"
    /\ LiteralKind(parser.tokens[parser.position]) = "Integer"

----------------------------------------------------------------------------
(* the literal i as parse_value yields it from the one-digit lexeme *)
Digit(i) == Literal(Value("Integer", <<48 + i>>))

(* ((1 + 2) + ...) + n *)
RECURSIVE LeftNested(_)
LeftNested(n) == IF n = 1 THEN Digit(1) ELSE BinaryOp(LeftNested(n - 1), Digit(n))

(* the source text echo ( 1 + 2 + ... + n ) ; *)
EchoChain(n) == Text(<<Echo, LexLParen>> \o Chain(n) \o <<LexRParen, LexSemi>>)

(* C2, as claimed: a source whose call argument is the chain 1 + 2 + ...   *)
(* + n, n >= 2, tokenizes and parses to a Program with one Call whose      *)
(* single argument is the left-nested tree ((1 + 2) + ...) + n.            *)
C2_LeftAssociative ==
    \A n \in 2..MaxChain :
        (pc = "done" /\ lexer.input = EchoChain(n)) =>
            parseResult = Ok(Program(<<Expression(Call(Echo, <<LeftNested(n)>>))>>))

----------------------------------------------------------------------------
(* Where each character of a source text lies, read off the text alone:    *)
(* "comment" from a // to the end of its line, "string" from an opening    *)
(* quote to its closing quote (a backslash takes the next character with   *)
(* it), "code" elsewhere.  A string literal that breaks off (a newline or  *)
(* an unknown escape in it) makes the rest "broken".  Layout(text) is the  *)
(* sequence of these classes followed by the mode at the end of the text:  *)
(* "code", "comment", "string", "escape" or "broken".                      *)

Escapable == {LOWER_N, LOWER_T, LOWER_R, QUOTE, BACKSLASH}

RECURSIVE LayoutFrom(_, _, _)
LayoutFrom(text, i, mode) ==
    IF i > Len(text) THEN <<mode>>
    ELSE
    LET c == text[i]
        next == IF i < Len(text) THEN text[i + 1] ELSE NoChar
    IN  CASE mode = "code" ->
                IF c = SLASH /\ next = SLASH
                THEN <<"comment">> \o LayoutFrom(text, i + 1, "comment")
                ELSE IF c = QUOTE
                THEN <<"string">> \o LayoutFrom(text, i + 1, "string")
                ELSE <<"code">> \o LayoutFrom(text, i + 1, "code")
          [] mode = "comment" ->
                IF c = NEWLINE
                THEN <<"code">> \o LayoutFrom(text, i + 1, "code")
                ELSE <<"comment">> \o LayoutFrom(text, i + 1, "comment")
          [] mode = "string" ->
                IF c = QUOTE
                THEN <<"string">> \o LayoutFrom(text, i + 1, "code")
                ELSE IF c = BACKSLASH
                THEN <<"string">> \o LayoutFrom(text, i + 1, "escape")
                ELSE IF c = NEWLINE
                THEN <<"broken">> \o LayoutFrom(text, i + 1, "broken")
                ELSE <<"string">> \o LayoutFrom(text, i + 1, "string")
          [] mode = "escape" ->
                IF c \in Escapable
                THEN <<"string">> \o LayoutFrom(text, i + 1, "string")
                ELSE <<"broken">> \o LayoutFrom(text, i + 1, "broken")
          [] mode = "broken" ->
                <<"broken">> \o LayoutFrom(text, i + 1, "broken")

Layout(text) == LayoutFrom(text, 1, "code")
EndMode(text) == Layout(text)[Len(text) + 1]

(* the 0-based positions of the non-ASCII characters outside string        *)
(* literals and comments                                                   *)
NonAsciiInCode(text) ==
    {i - 1 : i \in {j \in 1..Len(text) : ~is_ascii(text[j]) /\ Layout(text)[j] = "code"}}

Min(S) == CHOOSE x \in S : \A y \in S : x <= y

FailedAt(result, message, position) ==
    Failed(result, message) /\ result.position = position

(* C3, as claimed: a non-ASCII character outside string literals and       *)
(* comments makes tokenize fail with 'Invalid character' at the first such *)
(* character.                                                              *)
C3_Original ==
    (pc # "tokenize" /\ NonAsciiInCode(lexer.input) # {}) =>
        FailedAt(lexResult, "Invalid character", Min(NonAsciiInCode(lexer.input)))

(* the 0-based position at which the next token starts: the first one at   *)
(* or after `from` that is neither whitespace (char::is_whitespace) nor in *)
(* a comment                                                               *)
RECURSIVE TokenStart(_, _)
TokenStart(text, from) ==
    IF from >= Len(text) THEN Len(text)
    ELSE IF is_whitespace(text[from + 1]) \/ Layout(text)[from + 1] = "comment"
         THEN TokenStart(text, from + 1)
         ELSE from

CharAt(text, i) == IF i < Len(text) THEN text[i + 1] ELSE NoChar

(* C3, amended: a non-ASCII character at the start of a token, that is     *)
(* after whitespace and comments have been skipped, makes tokenize fail    *)
(* at once with 'Invalid character' at its position unless it is           *)
(* alphabetic; non-ASCII whitespace is skipped as whitespace, a non-ASCII  *)
(* alphabetic character starts an identifier, and non-ASCII alphanumeric   *)
(* characters after the first are absorbed into the identifier; no other   *)
(* token carries a non-ASCII character, string literals apart.             *)
C3_NonAsciiAtTokenStart ==
    [][pc = "tokenize" =>
        LET start == TokenStart(lexer.input, lexer.position)
            c     == CharAt(lexer.input, start)
        IN  /\ (c # NoChar /\ ~is_ascii(c) /\ ~is_alphabetic(c)) =>
                  /\ FailedAt(lexResult', "Invalid character", start)
                  /\ pc' = "done"
                  /\ tokens' = tokens
            /\ (c # NoChar /\ ~is_ascii(c) /\ is_alphabetic(c)) =>
                  /\ lexResult'.kind # "Err"
                  /\ Len(tokens') = Len(tokens) + 1
                  /\ tokens'[Len(tokens')].type = "Ident"
                  /\ tokens'[Len(tokens')].text[1] = c
                  /\ lexer'.position = start + Len(tokens'[Len(tokens')].text)
            /\ \A i \in 1..Len(tokens') :
                  /\ tokens'[i].type \notin {"Ident", "StringLiteral"} =>
                        \A k \in 1..Len(tokens'[i].text) : is_ascii(tokens'[i].text[k])
                  /\ tokens'[i].type = "Ident" =>
                        \A k \in 1..Len(tokens'[i].text) :
                            is_alphanumeric(tokens'[i].text[k])
                                \/ tokens'[i].text[k] = UNDERSCORE]_vars

(* C3 witness: tokenize has failed with 'Invalid character' at a non-ASCII *)
(* character that follows an identifier which absorbed another one.        *)
C3_Witness ==
    /\ pc = "done"
    /\ Failed(lexResult, "Invalid character")
    /\ ~is_ascii(CharAt(lexer.input, lexResult.position))
    /\ tokens # <<>>
    /\ tokens[1].type = "Ident"
    /\ \E k \in 1..Len(tokens[1].text) : ~is_ascii(tokens[1].text[k])

----------------------------------------------------------------------------
(* the input ends inside a string literal that has not broken off, and no  *)
(* 'Invalid character' came before it                                      *)
EndsInString(result, text) ==
    /\ EndMode(text) \in {"string", "escape"}
    /\ ~Failed(result, "Invalid character")

(* C4, as claimed: when the input ends inside a string literal, tokenize   *)
(* fails with the 'unterminated string' error.                             *)
C4_Original ==
    (pc # "tokenize" /\ EndsInString(lexResult, lexer.input)) =>
        FailedAt(lexResult, "Unterminated string constant", Len(lexer.input))

(* C4, amended: when the input ends inside a string literal, tokenize      *)
(* returns no token sequence: it fails with 'Unterminated string constant' *)
(* or, when the input ends right after a backslash, with 'Incomplete       *)
(* escape sequence'.                                                       *)
C4_UnterminatedString ==
    (pc # "tokenize" /\ EndsInString(lexResult, lexer.input)) =>
        /\ pc = "done"
        /\ parser = NoParser
        /\ IF EndMode(lexer.input) = "escape"
           THEN FailedAt(lexResult, "Incomplete escape sequence", Len(lexer.input))
           ELSE FailedAt(lexResult, "Unterminated string constant", Len(lexer.input))

(* C4 witness: tokenize has failed with 'Unterminated string constant' on  *)
(* a literal whose body holds an escape, after another token.  *)
C4_Witness ==
    /\ pc = "done"
    /\ Failed(lexResult, "Unterminated string constant")
    /\ tokens # <<>>
    /\ \E i \in 1..Len(lexer.input) :
          lexer.input[i] = BACKSLASH /\ Layout(lexer.input)[i] = "string"

----------------------------------------------------------------------------
(* an ASCII character that is not whitespace, punctuation ( ) ; =, a       *)
(* quote, a digit, a letter or an underscore                               *)
OtherAscii(c) ==
    /\ c >= 0 /\ c <= 127
    /\ c \notin {9, 10, 11, 12, 13, 32}
    /\ c \notin {LPAREN, RPAREN, SEMICOLON, EQUALS, QUOTE, UNDERSCORE}
    /\ ~(c >= 48 /\ c <= 57)
    /\ ~(c >= 65 /\ c <= 90)
    /\ ~(c >= 97 /\ c <= 122)

(* the 1-based indices of the Illegal tokens of a token sequence *)
IllegalAt(toks) == {i \in 1..Len(toks) : toks[i].type = "Illegal"}

(* C5: an ASCII character that is none of whitespace, ( ) ; =, quote,      *)
(* digit, letter, underscore, met at the start of a token, never makes     *)
(* tokenize fail: it yields Token::Illegal carrying it, one character is   *)
(* consumed and scanning goes on; and the parser never accepts such a      *)
(* token: it never advances past the first Illegal token, and it returns   *)
(* no Program from a token sequence that holds one.                        *)
C5_IllegalToken ==
    /\ [][pc = "tokenize" =>
            LET start == TokenStart(lexer.input, lexer.position)
                c     == CharAt(lexer.input, start)
            IN  (c # NoChar /\ OtherAscii(c)) =>
                    /\ tokens' = Append(tokens, Tok("Illegal", <<c>>))
                    /\ lexer'.position = start + 1
                    /\ lexResult' = NotYet
                    /\ pc' = "tokenize"]_vars
    /\ [](IllegalAt(parser.tokens) # {} =>
            /\ parseResult.kind # "Ok"
            /\ parser.position <= Min(IllegalAt(parser.tokens)))

(* C5 witness: parse has accumulated a statement and then returned an      *)
(* error on a token sequence whose Illegal token is inside the next one.   *)
C5_Witness ==
    /\ pc = "done"
    /\ parseResult.kind = "Err"
    /\ statements # <<>>
    /\ IllegalAt(parser.tokens) # {}
    /\ parser.position = Min(IllegalAt(parser.tokens))
    /\ parser.tokens[parser.position - 1].type = "Equals"

----------------------------------------------------------------------------
(* the text is made only of whitespace and // line comments *)
OnlyBlank(text) ==
    \A i \in 1..Len(text) :
        \/ Layout(text)[i] = "comment"
        \/ Layout(text)[i] = "code" /\ is_whitespace(text[i])

----------------------------------------------------------------------------
(* C7: a token sequence tokenize returns is non-empty, ends with EOF and   *)
(* holds EOF nowhere else; on a lexical failure tokenize returns the error *)
(* alone, a message and a position within the input, and the tokens        *)
(* scanned before it, none of them EOF, are not returned; while it runs    *)
(* the scanned tokens hold no EOF.                                         *)
C7_TokenSequenceShape ==
    /\ lexResult.kind = "Ok" =>
          /\ lexResult.value # <<>>
          /\ lexResult.value = tokens
          /\ \A i \in 1..Len(tokens) : tokens[i] = EOF <=> i = Len(tokens)
    /\ lexResult.kind = "Err" =>
          /\ DOMAIN lexResult = {"kind", "message", "position"}
          /\ lexResult.position \in 0..Len(lexer.input)
          /\ \A i \in 1..Len(tokens) : tokens[i] # EOF
          /\ pc = "done"
    /\ lexResult.kind = "NotYet" =>
          /\ pc = "tokenize"
          /\ \A i \in 1..Len(tokens) : tokens[i] # EOF

(* C7 witness: tokenize has returned a sequence of three tokens. *)
C7_Witness ==
    /\ lexResult.kind = "Ok"
    /\ Len(lexResult.value) = 3
    /\ lexResult.value[3] = EOF

----------------------------------------------------------------------------
(* the text of a number: digits with at most one '.', which has a digit    *)
(* before it and a digit after it                                          *)
WellFormedNumber(text) ==
    /\ text # <<>>
    /\ is_ascii_digit(text[1])
    /\ \A i \in 1..Len(text) : is_ascii_digit(text[i]) \/ text[i] = DOT
    /\ Cardinality({i \in 1..Len(text) : text[i] = DOT}) <= 1
    /\ \A i \in 1..Len(text) :
          text[i] = DOT =>
              /\ i > 1 /\ is_ascii_digit(text[i - 1])
              /\ i < Len(text) /\ is_ascii_digit(text[i + 1])

HasDot(text) == \E i \in 1..Len(text) : text[i] = DOT

(* C8: every NumberLiteral token has a text that starts with a digit, has  *)
(* at most one '.', and has a digit right before and right after it; the   *)
(* token is the text consumed, it stops before a '.' that no digit follows *)
(* and before a second '.', and that '.' is where the next token starts.   *)
C8_NumberLiteralShape ==
    [][pc = "tokenize" =>
        LET start == TokenStart(lexer.input, lexer.position)
            c     == CharAt(lexer.input, start)
            tok   == tokens'[Len(tokens')]
            end   == lexer'.position
        IN  /\ \A i \in 1..Len(tokens') :
                  tokens'[i].type = "NumberLiteral" => WellFormedNumber(tokens'[i].text)
            /\ (c # NoChar /\ is_ascii_digit(c)) =>
                  /\ Len(tokens') = Len(tokens) + 1
                  /\ tok.type = "NumberLiteral"
                  /\ tok.text = SubSeq(lexer.input, start + 1, end)
                  /\ ~is_ascii_digit(CharAt(lexer.input, end))
                  /\ CharAt(lexer.input, end) = DOT =>
                        \/ HasDot(tok.text)
                        \/ ~is_ascii_digit(CharAt(lexer.input, end + 1))]_vars

(* C8 witness: the lexer has read 1.1 and then the '.' that followed it as *)
(* a token of its own.                                                     *)
C8_Witness ==
    /\ Len(tokens) >= 2
    /\ tokens[1] = Tok("NumberLiteral", <<49, DOT, 49>>)
    /\ tokens[2] = Tok("Illegal", <<DOT>>)

----------------------------------------------------------------------------
(* the 0-based position of the first quote at or after position i, or the  *)
(* length of the text                                                      *)
RECURSIVE NextQuote(_, _)
NextQuote(text, i) ==
    IF i >= Len(text) THEN Len(text)
    ELSE IF text[i + 1] = QUOTE THEN i
    ELSE NextQuote(text, i + 1)

(* C9: for a string literal whose body, the text between the opening quote *)
(* and the next quote, holds no backslash and no newline, the lexer yields *)
(* a StringLiteral token whose value is the body, character for character, *)
(* and goes on after the closing quote.                                    *)
C9_StringBodyVerbatim ==
    [][pc = "tokenize" =>
        LET start == TokenStart(lexer.input, lexer.position)
            close == NextQuote(lexer.input, start + 1)
            body  == SubSeq(lexer.input, start + 2, close)
        IN  (/\ CharAt(lexer.input, start) = QUOTE
             /\ close < Len(lexer.input)
             /\ \A k \in 1..Len(body) : body[k] \notin {BACKSLASH, NEWLINE}) =>
                /\ tokens' = Append(tokens, Tok("StringLiteral", body))
                /\ lexer'.position = close + 1
                /\ lexResult' = NotYet]_vars

(* C9 witness: the lexer has read a literal whose body holds two slashes   *)
(* in a row as a StringLiteral that holds them.                            *)
C9_Witness ==
    \E i \in 1..Len(tokens) :
        /\ tokens[i].type = "StringLiteral"
        /\ Len(tokens[i].text) >= 2
        /\ \E k \in 1..(Len(tokens[i].text) - 1) :
              /\ tokens[i].text[k] = SLASH
              /\ tokens[i].text[k + 1] = SLASH

----------------------------------------------------------------------------
(* The expression grammar, as a recognizer on a token sequence:            *)
(*   expression ::= primary (Plus primary)*                                *)
(*   primary    ::= literal | Ident | LParen expression RParen             *)
(* ExpressionEnd(toks, i) is the 1-based index after the expression that   *)
(* starts at index i, 0 when none starts there.                            *)

TypeAt(toks, i) == IF i >= 1 /\ i <= Len(toks) THEN toks[i].type ELSE "None"

RECURSIVE PrimaryEnd(_, _)
RECURSIVE ExpressionEnd(_, _)
RECURSIVE ChainEnd(_, _)

PrimaryEnd(toks, i) ==
    IF TypeAt(toks, i) \in LiteralTokens \cup {"Ident"} THEN i + 1
    ELSE IF TypeAt(toks, i) = "LParen"
         THEN IF ExpressionEnd(toks, i + 1) # 0
                    /\ TypeAt(toks, ExpressionEnd(toks, i + 1)) = "RParen"
              THEN ExpressionEnd(toks, i + 1) + 1
              ELSE 0
         ELSE 0

ChainEnd(toks, e) ==
    IF e = 0 THEN 0
    ELSE IF TypeAt(toks, e) = "Plus" THEN ChainEnd(toks, PrimaryEnd(toks, e + 1))
    ELSE e

ExpressionEnd(toks, i) == ChainEnd(toks, PrimaryEnd(toks, i))

(* no Call inside an expression *)
RECURSIVE NoCallIn(_)
NoCallIn(e) ==
    CASE e.kind = "Call" -> FALSE
      [] e.kind = "BinaryOp" -> NoCallIn(e.left) /\ NoCallIn(e.right)
      [] OTHER -> TRUE

(* every Expression statement is a Call of echo with at most one argument, *)
(* and there is no other Call                                              *)
CallsHaveAtMostOneArg(stmts) ==
    \A i \in 1..Len(stmts) :
        stmts[i].kind = "Expression" =>
            /\ stmts[i].expr.kind = "Call"
            /\ stmts[i].expr.name = Echo
            /\ Len(stmts[i].expr.args) <= 1
            /\ \A a \in 1..Len(stmts[i].expr.args) : NoCallIn(stmts[i].expr.args[a])

(* C10: a statement that starts with the identifier echo is accumulated,   *)
(* as an Expression statement wrapping Call{name: "echo", args}, only when *)
(* the tokens after it are (, then nothing or exactly one expression, then *)
(* ) and ;: args is empty when ) follows ( directly and has exactly one    *)
(* element otherwise, and the parser is then right after the ;.  Every     *)
(* Call of the accumulated statements has at most one argument.  Any other *)
(* identifier at statement position makes parse return 'Unknown function   *)
(* or variable'.                                                           *)
C10_EchoCall ==
    [][pc = "parse" =>
        LET toks   == parser.tokens
            k      == parser.position + 1
            pushed == Len(statements') = Len(statements) + 1
            call   == statements'[Len(statements')].expr
            e      == ExpressionEnd(toks, k + 2)
        IN  /\ CallsHaveAtMostOneArg(statements')
            /\ (TypeAt(toks, k) = "Ident" /\ toks[k].text # Echo) =>
                  /\ Failed(parseResult', "Unknown function or variable")
                  /\ statements' = statements
                  /\ pc' = "done"
            /\ (TypeAt(toks, k) = "Ident" /\ toks[k].text = Echo) =>
                  /\ ~pushed => parseResult'.kind = "Err" /\ statements' = statements
                  /\ pushed =>
                        /\ statements'[Len(statements')].kind = "Expression"
                        /\ SubSeq(statements', 1, Len(statements)) = statements
                        /\ call.kind = "Call" /\ call.name = Echo
                        /\ TypeAt(toks, k + 1) = "LParen"
                        /\ IF TypeAt(toks, k + 2) = "RParen"
                           THEN /\ call.args = <<>>
                                /\ TypeAt(toks, k + 3) = "Semicolon"
                                /\ parser'.position = k + 3
                           ELSE /\ Len(call.args) = 1
                                /\ e # 0
                                /\ TypeAt(toks, e) = "RParen"
                                /\ TypeAt(toks, e + 1) = "Semicolon"
                                /\ parser'.position = e + 1]_vars

(* C10 witness: parse has returned a Program with a Call of echo with one  *)
(* argument and a Call of echo with none.                                  *)
C10_Witness ==
    /\ parseResult.kind = "Ok"
    /\ \E i, j \in 1..Len(parseResult.value.statements) :
          /\ parseResult.value.statements[i].kind = "Expression"
          /\ Len(parseResult.value.statements[i].expr.args) = 1
          /\ parseResult.value.statements[j].kind = "Expression"
          /\ parseResult.value.statements[j].expr.args = <<>>

----------------------------------------------------------------------------
(* The statement grammar, as a recognizer on a token sequence:             *)
(*   statement ::= type Ident Equals literal Semicolon                     *)
(*               | echo LParen [expression] RParen Semicolon               *)
(* with the literal of the declared kind and every integer within i64.     *)
(* StatementEnd(toks, i) is the 1-based index after the statement that     *)
(* starts at index i, 0 when no well-formed statement starts there.        *)
IntegersFit(toks, a, b) == \A k \in a..b : ~TooBigForI64(toks[k])

StatementEnd(toks, i) ==
    IF TypeAt(toks, i) \in TypeKeywords
    THEN IF /\ TypeAt(toks, i + 1) = "Ident"
            /\ TypeAt(toks, i + 2) = "Equals"
            /\ TypeAt(toks, i + 3) \in LiteralTokens
            /\ LiteralKind(toks[i + 3]) = DeclaredType(toks[i])
            /\ ~TooBigForI64(toks[i + 3])
            /\ TypeAt(toks, i + 4) = "Semicolon"
         THEN i + 5
         ELSE 0
    ELSE IF TypeAt(toks, i) = "Ident" /\ toks[i].text = Echo
                /\ TypeAt(toks, i + 1) = "LParen"
         THEN IF TypeAt(toks, i + 2) = "RParen"
              THEN IF TypeAt(toks, i + 3) = "Semicolon" THEN i + 4 ELSE 0
              ELSE IF /\ ExpressionEnd(toks, i + 2) # 0
                      /\ TypeAt(toks, ExpressionEnd(toks, i + 2)) = "RParen"
                      /\ TypeAt(toks, ExpressionEnd(toks, i + 2) + 1) = "Semicolon"
                      /\ IntegersFit(toks, i + 2, ExpressionEnd(toks, i + 2) - 1)
                   THEN ExpressionEnd(toks, i + 2) + 2
                   ELSE 0
         ELSE 0

(* the start indices of the well-formed statements that follow one another *)
(* from index i on, up to the first place where none starts                *)
RECURSIVE StatementStarts(_, _)
StatementStarts(toks, i) ==
    IF StatementEnd(toks, i) = 0 THEN <<>>
    ELSE <<i>> \o StatementStarts(toks, StatementEnd(toks, i))

(* the index where the well-formed statements from index 1 on stop *)
FirstFault(toks) ==
    IF StatementStarts(toks, 1) = <<>> THEN 1
    ELSE StatementEnd(toks, StatementStarts(toks, 1)[Len(StatementStarts(toks, 1))])

(* stmt is the statement of the tokens that start at index i *)
StatementOf(stmt, toks, i) ==
    IF TypeAt(toks, i) \in TypeKeywords
    THEN /\ stmt.kind = "Declaration"
         /\ stmt.var_type = DeclaredType(toks[i])
         /\ stmt.name = toks[i + 1].text
         /\ stmt.value.tag = LiteralKind(toks[i + 3])
         /\ toks[i + 3].type = "StringLiteral" => stmt.value.v = toks[i + 3].text
    ELSE /\ stmt.kind = "Expression"
         /\ stmt.expr.kind = "Call"
         /\ stmt.expr.name = toks[i].text
         /\ stmt.expr.args = <<>> <=> TypeAt(toks, i + 2) = "RParen"

(* C11: while parse runs, the accumulated statements are the well-formed   *)
(* statements the parser has passed, one per source statement, in source   *)
(* order.  When parse has returned, it has returned a Program exactly when *)
(* the well-formed statements reach the EOF token, and the Program then    *)
(* holds all of them in source order; otherwise it has returned an error   *)
(* alone, without any Program, the statements before the first faulty one  *)
(* having been accumulated.  When tokenize has failed, no parser was       *)
(* constructed and parse returned nothing, whatever the tokens scanned     *)
(* before the failure were.                                                *)
C11_AllOrNothing ==
    /\ lexResult.kind = "Err" =>
          /\ pc = "done"
          /\ parser = NoParser
          /\ statements = <<>>
          /\ parseResult = NotYet
    /\ pc \in {"parse", "done"} /\ lexResult.kind = "Ok" =>
          /\ Len(statements) <= Len(StatementStarts(tokens, 1))
          /\ \A j \in 1..Len(statements) :
                StatementOf(statements[j], tokens, StatementStarts(tokens, 1)[j])
          /\ pc = "parse" => parseResult = NotYet
          /\ pc = "done" =>
                /\ Len(statements) = Len(StatementStarts(tokens, 1))
                /\ parseResult.kind \in {"Ok", "Err"}
                /\ parseResult.kind = "Ok" <=>
                      TypeAt(tokens, FirstFault(tokens)) = "EOF"
                /\ parseResult.kind = "Ok" =>
                      /\ parseResult.value = Program(statements)
                      /\ parser.position = Len(tokens) - 1
                /\ parseResult.kind = "Err" =>
                      DOMAIN parseResult = {"kind", "message", "line", "column"}

(* C11 witness: parse has returned an error alone on a source whose third  *)
(* statement is the first faulty one and is followed by a well-formed one, *)
(* the two statements before it having been accumulated.                   *)
C11_Witness ==
    /\ pc = "done"
    /\ parseResult.kind = "Err"
    /\ Len(statements) = 2
    /\ statements[1].kind = "Expression"
    /\ statements[2].kind = "Declaration"
    /\ \E i \in (FirstFault(tokens) + 1)..Len(tokens) : StatementEnd(tokens, i) # 0

(* tokenize has failed after scanning tokens parse would have refused *)
C11_LexFailureReached ==
    /\ pc = "done"
    /\ lexResult.kind = "Err"
    /\ tokens # <<>>
    /\ StatementEnd(tokens, 1) = 0

----------------------------------------------------------------------------
(* C12: no iteration of the loop of Parser::parse changes the parser's     *)
(* current_line, current_column or tokens; from Parser::new on the parser  *)
(* has current_line 1 and current_column 1; and every ParseError that      *)
(* parse returns carries line 1 and column 1, wherever the parser stands   *)
(* in the token sequence.                                                  *)
C12_LineColumnFixed ==
    /\ [][pc = "parse" =>
            /\ parser'.current_line = parser.current_line
            /\ parser'.current_column = parser.current_column
            /\ parser'.tokens = parser.tokens]_vars
    /\ [](pc \in {"parse", "done"} =>
            /\ parser.current_line = 1
            /\ parser.current_column = 1)
    /\ [](parseResult.kind = "Err" =>
            /\ parseResult.line = 1
            /\ parseResult.column = 1)

(* C12 witness: parse has returned an error carrying line 1 and column 1   *)
(* after two accumulated statements, the parser standing on the fourth     *)
(* token of the third statement or further.                                *)
C12_Witness ==
    /\ pc = "done"
    /\ parseResult.kind = "Err"
    /\ parseResult.line = 1
    /\ parseResult.column = 1
    /\ Len(statements) = 2
    /\ parser.position >= FirstFault(parser.tokens) + 3
    /\ parser.current_line = 1
    /\ parser.current_column = 1

----------------------------------------------------------------------------
(* the front end has returned: tokenize an error, or parse its Result *)
Returned ==
    /\ pc = "done"
    /\ \/ lexResult.kind = "Err" /\ parseResult = NotYet
       \/ lexResult.kind = "Ok" /\ parseResult.kind \in {"Ok", "Err"}

(* C13: a call of next_token never moves the scan position backwards nor   *)
(* beyond the length of the input, and moves it forward by at least one    *)
(* character when it returns a token other than EOF; an iteration of the   *)
(* loop of Lexer::tokenize that does not leave the loop pushes one token   *)
(* and moves the scan position forward; an iteration of the loop of        *)
(* Parser::parse never moves the parser backwards, and moves it forward by *)
(* at least one token unless parse returns; and tokenize followed by parse *)
(* eventually returns a result or an error.                                *)
C13_Terminates ==
    /\ [](lexer.position >= 0 /\ lexer.position <= Len(lexer.input))
    /\ [][pc = "tokenize" =>
            /\ lexer'.input = lexer.input
            /\ lexer'.position >= lexer.position
            /\ (tokens' # tokens /\ tokens'[Len(tokens')] # EOF) =>
                  lexer'.position > lexer.position
            /\ pc' = "tokenize" =>
                  /\ Len(tokens') = Len(tokens) + 1
                  /\ lexer'.position > lexer.position]_vars
    /\ [][pc = "parse" =>
            /\ parser'.tokens = parser.tokens
            /\ parser'.position >= parser.position
            /\ parser'.position > parser.position \/ pc' = "done"]_vars
    /\ [](pc = "done" => Returned)
    /\ <>Returned

(* C13 witness: the front end has returned after the lexer has scanned the *)
(* whole input into more than ten tokens, a string among them, and the     *)
(* parser has gone through at least three iterations, past the tenth token.*)
C13_Witness ==
    /\ Returned
    /\ lexer.position = Len(lexer.input)
    /\ Len(tokens) > 10
    /\ \E i \in 1..Len(tokens) : tokens[i].type = "StringLiteral"
    /\ Len(statements) >= 2
    /\ parser.position > 10

====
